---- MODULE Spec2Model ----
(***************************************************************************)
(* TokenBucket (TokenBucketAlgorithm.cpp): a token bucket consumed by      *)
(* request() and reset to max_counter_ by the refiller_ thread, which      *)
(* sleeps in condition_variable_.wait_for between refills and is stopped   *)
(* and joined by the destructor.                                           *)
(*                                                                         *)
(* Threads: the host (constructor, then destructor), the refiller_ thread  *)
(* running refill(), and the callers of request().  Every step that takes  *)
(* or gives back counter_mutex_, reads or writes a member, blocks or wakes *)
(* is one action.                                                          *)
(***************************************************************************)
EXTENDS Integers, Sequences, FiniteSets

\* ---- bounds of the model ----
NumCallers == 2   \* threads calling request()
MaxCalls == 3     \* request() calls they make in all
MaxCap == 2       \* largest size passed to the constructor
MaxNeg == 1       \* the smallest size passed is -MaxNeg
MaxPeriod == 1    \* largest refillFrequencySeconds passed, in clock ticks

Callers == 1..NumCallers
Sizes == (0 - MaxNeg)..MaxCap
Periods == 0..MaxPeriod

VARIABLES
    size,                    \* constructor argument
    refillFrequencySeconds,  \* constructor argument
    max_counter_,            \* int max_counter_
    counter_,                \* int counter_
    counter_mutex_,          \* the mutex: Free, or who holds it
    exit_,                   \* bool exit_ (indeterminate until line 72 has run)
    cvWaiter,                \* condition_variable_ has the refiller registered as waiter
    hostpc,                  \* the host thread: constructor and destructor
    rpc,                     \* the refiller_ thread, by source line of refill()
    remaining,               \* ticks left until the deadline of the current wait_for
    pc,                      \* pc[c]: caller c inside request(), by source line
    result,                  \* result[c]: the local `result` of c's request()
    ncalls,                  \* ncalls[c]: calls c has completed
    lockedTokens,            \* counter_ as the request() holding the mutex found it (0 when none does)
    hist,                    \* results of request() since the bucket was last full
    lastRefill,              \* what line 83 last overwrote: "none" yet, an "exhausted" bucket (0), or "other"
    elapsed                  \* clock ticks since line 83 last ran (since construction before that)

vars == <<size, refillFrequencySeconds, max_counter_, counter_, counter_mutex_,
          exit_, cvWaiter, hostpc, rpc, remaining, pc, result, ncalls,
          lockedTokens, hist, lastRefill, elapsed>>

bucketVars == <<size, refillFrequencySeconds, max_counter_>>
callerVars == <<pc, result, ncalls>>

\* The object exists: its constructor has returned, its destructor has not.
Alive == hostpc \in {"live", "d45", "d46", "d47", "d48", "d49"}

\* The refiller holds no position in refill() any more.
Terminated == rpc = "terminated"

\* std::mutex counter_mutex_: who holds it
Free == <<"none", 0>>
HeldByHost == <<"host", 0>>
HeldByRefiller == <<"refiller", 0>>
HeldBy(c) == <<"caller", c>>

\* line 83 has run at least once
refilled == lastRefill # "none"

RECURSIVE Sum(_, _)
Sum(f, S) == IF S = {} THEN 0 ELSE LET x == CHOOSE y \in S : TRUE IN f[x] + Sum(f, S \ {x})

\* request() calls started so far
Started == Sum(ncalls, Callers) + Cardinality({c \in Callers : pc[c] # "idle"})

Max(a, b) == IF a > b THEN a ELSE b

(***************************************************************************)
(* Constructor.  The members are initialised in declaration order (lines   *)
(* 68-73): max_counter_, counter_, counter_mutex_, refiller_, exit_,       *)
(* condition_variable_.  Init is the state before refiller_ is             *)
(* initialised: the three members before it are set, exit_ holds whatever  *)
(* the memory held, condition_variable_ is not constructed.                *)
(***************************************************************************)
Init ==
    /\ size \in Sizes
    /\ refillFrequencySeconds \in Periods
    /\ max_counter_ = size
    /\ counter_ = size
    /\ counter_mutex_ = Free
    /\ exit_ \in BOOLEAN
    /\ cvWaiter = FALSE
    /\ hostpc = "c41"
    /\ rpc = "notstarted"
    /\ remaining = 0
    /\ pc = [c \in Callers |-> "idle"]
    /\ result = [c \in Callers |-> FALSE]
    /\ ncalls = [c \in Callers |-> 0]
    /\ lockedTokens = 0
    /\ hist = <<>>
    /\ lastRefill = "none"
    /\ elapsed = 0

\* line 41: refiller_(&TokenBucket::refill, this, refillFrequencySeconds)
Ctor_refiller ==
    /\ hostpc = "c41"
    /\ hostpc' = "c72"
    /\ rpc' = "r79"
    /\ UNCHANGED <<bucketVars, counter_, counter_mutex_, exit_, cvWaiter, remaining,
                   callerVars, lockedTokens, hist, lastRefill, elapsed>>

\* line 72: bool exit_ = false, written without the mutex while refill() runs
Ctor_exit ==
    /\ hostpc = "c72"
    /\ hostpc' = "c73"
    /\ exit_' = FALSE
    /\ UNCHANGED <<bucketVars, counter_, counter_mutex_, cvWaiter, rpc, remaining,
                   callerVars, lockedTokens, hist, lastRefill, elapsed>>

\* line 73: condition_variable_ is constructed.  If the refiller is already
\* waiting on the storage, constructing over it may keep or wipe the waiter.
Ctor_cv ==
    /\ hostpc = "c73"
    /\ hostpc' = "live"
    /\ cvWaiter' \in (IF cvWaiter THEN {TRUE, FALSE} ELSE {FALSE})
    /\ UNCHANGED <<bucketVars, counter_, counter_mutex_, exit_, rpc, remaining,
                   callerVars, lockedTokens, hist, lastRefill, elapsed>>

(***************************************************************************)
(* bool request(), lines 56-66.                                            *)
(***************************************************************************)
\* line 57: a call starts on a live object; bool result = false
Request_begin(c) ==
    /\ Alive
    /\ pc[c] = "idle"
    /\ Started < MaxCalls
    /\ pc' = [pc EXCEPT ![c] = "q59"]
    /\ result' = [result EXCEPT ![c] = FALSE]
    /\ UNCHANGED <<bucketVars, counter_, counter_mutex_, exit_, cvWaiter, hostpc, rpc,
                   remaining, ncalls, lockedTokens, hist, lastRefill, elapsed>>


\* request() as it would be if line 59 did not wait for the mutex
Request_lock_noWait(c) ==
    /\ pc[c] = "q59"
    /\ counter_mutex_' = HeldBy(c)
    /\ lockedTokens' = counter_
    /\ pc' = [pc EXCEPT ![c] = "q60"]
    /\ UNCHANGED <<bucketVars, counter_, exit_, cvWaiter, hostpc, rpc, remaining,
                   result, ncalls, hist, lastRefill, elapsed>>

\* line 59: std::lock_guard lock(counter_mutex_)
Request_lock(c) ==
    /\ pc[c] = "q59"
    /\ counter_mutex_ = Free
    /\ counter_mutex_' = HeldBy(c)
    /\ lockedTokens' = counter_
    /\ pc' = [pc EXCEPT ![c] = "q60"]
    /\ UNCHANGED <<bucketVars, counter_, exit_, cvWaiter, hostpc, rpc, remaining,
                   result, ncalls, hist, lastRefill, elapsed>>


\* request() as it would be if line 60 read if (counter_ >= 0)
Request_test_ge(c) ==
    /\ pc[c] = "q60"
    /\ pc' = [pc EXCEPT ![c] = IF counter_ >= 0 THEN "q61" ELSE "q64"]
    /\ UNCHANGED <<bucketVars, counter_, counter_mutex_, exit_, cvWaiter, hostpc, rpc,
                   remaining, result, ncalls, lockedTokens, hist, lastRefill, elapsed>>

\* line 60: if (counter_ != 0)
Request_test(c) ==
    /\ pc[c] = "q60"
    /\ pc' = [pc EXCEPT ![c] = IF counter_ # 0 THEN "q61" ELSE "q64"]
    /\ UNCHANGED <<bucketVars, counter_, counter_mutex_, exit_, cvWaiter, hostpc, rpc,
                   remaining, result, ncalls, lockedTokens, hist, lastRefill, elapsed>>


\* request() as it would be if line 61 took two tokens
Request_take_two(c) ==
    /\ pc[c] = "q61"
    /\ counter_' = counter_ - 2
    /\ result' = [result EXCEPT ![c] = TRUE]
    /\ pc' = [pc EXCEPT ![c] = "q64"]
    /\ UNCHANGED <<bucketVars, counter_mutex_, exit_, cvWaiter, hostpc, rpc, remaining,
                   ncalls, lockedTokens, hist, lastRefill, elapsed>>

\* request() as it would be if line 61 were missing
Request_take_none(c) ==
    /\ pc[c] = "q61"
    /\ result' = [result EXCEPT ![c] = TRUE]
    /\ pc' = [pc EXCEPT ![c] = "q64"]
    /\ UNCHANGED <<bucketVars, counter_, counter_mutex_, exit_, cvWaiter, hostpc, rpc,
                   remaining, ncalls, lockedTokens, hist, lastRefill, elapsed>>

\* lines 61-62: --counter_; result = true
Request_take(c) ==
    /\ pc[c] = "q61"
    /\ counter_' = counter_ - 1
    /\ result' = [result EXCEPT ![c] = TRUE]
    /\ pc' = [pc EXCEPT ![c] = "q64"]
    /\ UNCHANGED <<bucketVars, counter_mutex_, exit_, cvWaiter, hostpc, rpc, remaining,
                   ncalls, lockedTokens, hist, lastRefill, elapsed>>

\* line 64: the lock_guard goes out of scope; the decision is now visible
Request_unlock(c) ==
    /\ pc[c] = "q64"
    /\ counter_mutex_' = Free
    /\ hist' = Append(hist, result[c])
    /\ lockedTokens' = 0
    /\ pc' = [pc EXCEPT ![c] = "q65"]
    /\ UNCHANGED <<bucketVars, counter_, exit_, cvWaiter, hostpc, rpc, remaining,
                   result, ncalls, lastRefill, elapsed>>

\* line 65: return result
Request_return(c) ==
    /\ pc[c] = "q65"
    /\ pc' = [pc EXCEPT ![c] = "idle"]
    /\ ncalls' = [ncalls EXCEPT ![c] = @ + 1]
    /\ UNCHANGED <<bucketVars, counter_, counter_mutex_, exit_, cvWaiter, hostpc, rpc,
                   remaining, result, lockedTokens, hist, lastRefill, elapsed>>

request(c) ==
    \/ Request_begin(c)
    \/ Request_lock(c)
    \/ Request_test(c)
    \/ Request_take(c)
    \/ Request_unlock(c)
    \/ Request_return(c)

(***************************************************************************)
(* void refill(int refillFrequencySeconds), lines 75-87.                   *)
(*                                                                         *)
(* wait_for(lock, d, pred) is                                              *)
(*     deadline = now + d;                                                 *)
(*     while (!pred()) if (wait_until(lock, deadline) == timeout)          *)
(*                         return pred();                                  *)
(*     return true;                                                        *)
(* and wait_until gives the mutex back while it blocks and takes it again  *)
(* before it returns.                                                      *)
(***************************************************************************)
\* line 79: std::unique_lock lock(counter_mutex_)
Refill_lock ==
    /\ rpc = "r79"
    /\ counter_mutex_ = Free
    /\ counter_mutex_' = HeldByRefiller
    /\ rpc' = "r80"
    /\ UNCHANGED <<bucketVars, counter_, lockedTokens, exit_, cvWaiter, hostpc, remaining,
                   callerVars, hist, lastRefill, elapsed>>

\* line 80, left operand: if (exit_ || ...
Refill_checkExit ==
    /\ rpc = "r80"
    /\ rpc' = IF exit_ THEN "r81" ELSE "r80w"
    /\ UNCHANGED <<bucketVars, counter_, counter_mutex_, exit_, cvWaiter, hostpc,
                   remaining, callerVars, lockedTokens, hist, lastRefill, elapsed>>

\* wait_until as it would be if it kept the mutex while the thread sleeps
Block_keepMutex ==
    /\ rpc' = "waiting"
    /\ counter_mutex_' = counter_mutex_
    /\ cvWaiter' = TRUE

\* The thread blocks in wait_until: the mutex is given back and the thread
\* is registered as a waiter of the condition variable, atomically.
Block ==
    /\ rpc' = "waiting"
    /\ counter_mutex_' = Free
    /\ cvWaiter' = TRUE

\* line 80, right operand: wait_for fixes its deadline, evaluates the
\* predicate and, if it is false, blocks.
Refill_wait_for ==
    /\ rpc = "r80w"
    /\ remaining' = Max(refillFrequencySeconds, 0)
    /\ IF exit_
         THEN rpc' = "r81" /\ UNCHANGED <<counter_mutex_, cvWaiter>>
         ELSE Block
    /\ UNCHANGED <<bucketVars, counter_, exit_, hostpc, callerVars, lockedTokens,
                   hist, lastRefill, elapsed>>

\* The refiller's clock advances towards the deadline of the pending wait.
Tick ==
    /\ rpc \in {"waiting", "woken", "wpred"}
    /\ remaining > 0
    /\ remaining' = remaining - 1
    /\ elapsed' = elapsed + 1
    /\ UNCHANGED <<bucketVars, counter_, counter_mutex_, exit_, cvWaiter, hostpc, rpc,
                   callerVars, lockedTokens, hist, lastRefill>>

\* wait_until ends with cv_status::timeout: the deadline has passed.
Timeout ==
    /\ rpc = "waiting"
    /\ remaining = 0
    /\ rpc' = "timedout"
    /\ cvWaiter' = FALSE
    /\ UNCHANGED <<bucketVars, counter_, counter_mutex_, exit_, hostpc, remaining,
                   callerVars, lockedTokens, hist, lastRefill, elapsed>>

\* wait_until ends without a notification and before the deadline (at the
\* deadline the wait ends as a timeout).
SpuriousWakeup ==
    /\ rpc = "waiting"
    /\ remaining > 0
    /\ rpc' = "woken"
    /\ cvWaiter' = FALSE
    /\ UNCHANGED <<bucketVars, counter_, counter_mutex_, exit_, hostpc, remaining,
                   callerVars, lockedTokens, hist, lastRefill, elapsed>>

\* wait_until takes the mutex again after a notification or a spurious wake-up
Refill_relock ==
    /\ rpc = "woken"
    /\ counter_mutex_ = Free
    /\ counter_mutex_' = HeldByRefiller
    /\ rpc' = "wpred"
    /\ UNCHANGED <<bucketVars, counter_, lockedTokens, exit_, cvWaiter, hostpc, remaining,
                   callerVars, hist, lastRefill, elapsed>>

\* wait_for as it would be without its predicate loop: any wake-up with
\* exit_ unset goes on to the refill
Refill_recheck_refill ==
    /\ rpc = "wpred"
    /\ rpc' = IF exit_ THEN "r81" ELSE "r83"
    /\ UNCHANGED <<bucketVars, counter_, counter_mutex_, cvWaiter, exit_, hostpc,
                   remaining, callerVars, lockedTokens, hist, lastRefill, elapsed>>

\* the loop of wait_for evaluates the predicate: true ends the wait with
\* true, false blocks again until the same deadline
Refill_recheck ==
    /\ rpc = "wpred"
    /\ IF exit_
         THEN rpc' = "r81" /\ UNCHANGED <<counter_mutex_, cvWaiter>>
         ELSE Block
    /\ UNCHANGED <<bucketVars, counter_, exit_, hostpc, remaining, callerVars,
                   lockedTokens, hist, lastRefill, elapsed>>

\* wait_until as it would be if it returned after a timeout without
\* waiting for the mutex
Refill_relockTimedOut_noWait ==
    /\ rpc = "timedout"
    /\ counter_mutex_' = HeldByRefiller
    /\ rpc' = "tpred"
    /\ UNCHANGED <<bucketVars, counter_, lockedTokens, exit_, cvWaiter, hostpc, remaining,
                   callerVars, hist, lastRefill, elapsed>>

\* wait_until takes the mutex again after the timeout
Refill_relockTimedOut ==
    /\ rpc = "timedout"
    /\ counter_mutex_ = Free
    /\ counter_mutex_' = HeldByRefiller
    /\ rpc' = "tpred"
    /\ UNCHANGED <<bucketVars, counter_, lockedTokens, exit_, cvWaiter, hostpc, remaining,
                   callerVars, hist, lastRefill, elapsed>>

\* wait_for as it would be if a timeout were not followed by a look at exit_
Refill_timedOut_noRecheck ==
    /\ rpc = "tpred"
    /\ rpc' = "r83"
    /\ UNCHANGED <<bucketVars, counter_, counter_mutex_, exit_, cvWaiter, hostpc,
                   remaining, callerVars, lockedTokens, hist, lastRefill, elapsed>>

\* after the timeout wait_for returns pred(): true leaves refill(), false
\* goes on to line 83
Refill_timedOut ==
    /\ rpc = "tpred"
    /\ rpc' = IF exit_ THEN "r81" ELSE "r83"
    /\ UNCHANGED <<bucketVars, counter_, counter_mutex_, exit_, cvWaiter, hostpc,
                   remaining, callerVars, lockedTokens, hist, lastRefill, elapsed>>


\* refill() as it would be if line 83 added one token instead of resetting
Refill_reset_addOne ==
    /\ rpc = "r83"
    /\ counter_' = counter_ + 1
    /\ hist' = <<>>
    /\ lastRefill' = IF counter_ = 0 THEN "exhausted" ELSE "other"
    /\ elapsed' = 0
    /\ rpc' = "r84"
    /\ UNCHANGED <<bucketVars, counter_mutex_, exit_, cvWaiter, hostpc, remaining,
                   callerVars, lockedTokens>>

\* line 83: counter_ = max_counter_
Refill_reset ==
    /\ rpc = "r83"
    /\ counter_' = max_counter_
    /\ hist' = <<>>
    /\ lastRefill' = IF counter_ = 0 THEN "exhausted" ELSE "other"
    /\ elapsed' = 0
    /\ rpc' = "r84"
    /\ UNCHANGED <<bucketVars, counter_mutex_, exit_, cvWaiter, hostpc, remaining,
                   callerVars, lockedTokens>>

\* refill() as it would be if line 85 stood inside the block of the lock
Refill_unlock_afterPrint ==
    /\ rpc = "r84"
    /\ rpc' = "r85"
    /\ UNCHANGED <<bucketVars, counter_, counter_mutex_, exit_, cvWaiter, hostpc, remaining,
                   callerVars, lockedTokens, hist, lastRefill, elapsed>>

\* line 84: the unique_lock goes out of scope
Refill_unlock ==
    /\ rpc = "r84"
    /\ counter_mutex_' = Free
    /\ rpc' = "r85"
    /\ UNCHANGED <<bucketVars, counter_, exit_, cvWaiter, hostpc, remaining,
                   callerVars, lockedTokens, hist, lastRefill, elapsed>>

\* line 85: std::cout << "Refill of " << max_counter_, then the next round
Refill_print ==
    /\ rpc = "r85"
    /\ rpc' = "r79"
    /\ UNCHANGED <<bucketVars, counter_, counter_mutex_, exit_, cvWaiter, hostpc,
                   remaining, callerVars, lockedTokens, hist, lastRefill, elapsed>>

\* line 81: return; the unique_lock gives the mutex back and the thread ends
Refill_return ==
    /\ rpc = "r81"
    /\ counter_mutex_' = Free
    /\ rpc' = "terminated"
    /\ UNCHANGED <<bucketVars, counter_, exit_, cvWaiter, hostpc, remaining,
                   callerVars, lockedTokens, hist, lastRefill, elapsed>>

refill ==
    \/ Refill_lock
    \/ Refill_checkExit
    \/ Refill_wait_for
    \/ Refill_relock
    \/ Refill_recheck
    \/ Refill_relockTimedOut
    \/ Refill_timedOut
    \/ Refill_reset
    \/ Refill_unlock
    \/ Refill_print
    \/ Refill_return

(***************************************************************************)
(* ~TokenBucket(), lines 43-50.                                            *)
(***************************************************************************)
\* line 43: the host destroys the object
Dtor_begin ==
    /\ hostpc = "live"
    /\ hostpc' = "d45"
    /\ UNCHANGED <<bucketVars, counter_, counter_mutex_, exit_, cvWaiter, rpc,
                   remaining, callerVars, lockedTokens, hist, lastRefill, elapsed>>

\* line 45: std::lock_guard lock(counter_mutex_)
Dtor_lock ==
    /\ hostpc = "d45"
    /\ counter_mutex_ = Free
    /\ counter_mutex_' = HeldByHost
    /\ hostpc' = "d46"
    /\ UNCHANGED <<bucketVars, counter_, lockedTokens, exit_, cvWaiter, rpc, remaining, callerVars,
                   hist, lastRefill, elapsed>>

\* line 46: exit_ = true
Dtor_setExit ==
    /\ hostpc = "d46"
    /\ exit_' = TRUE
    /\ hostpc' = "d47"
    /\ UNCHANGED <<bucketVars, counter_, counter_mutex_, cvWaiter, rpc, remaining,
                   callerVars, lockedTokens, hist, lastRefill, elapsed>>

\* line 47: the lock_guard goes out of scope
Dtor_unlock ==
    /\ hostpc = "d47"
    /\ counter_mutex_' = Free
    /\ hostpc' = "d48"
    /\ UNCHANGED <<bucketVars, counter_, exit_, cvWaiter, rpc, remaining, callerVars,
                   lockedTokens, hist, lastRefill, elapsed>>

\* line 48: condition_variable_.notify_one() wakes the registered waiter, if any
Dtor_notify ==
    /\ hostpc = "d48"
    /\ hostpc' = "d49"
    /\ IF cvWaiter
         THEN rpc' = "woken" /\ cvWaiter' = FALSE
         ELSE UNCHANGED <<rpc, cvWaiter>>
    /\ UNCHANGED <<bucketVars, counter_, counter_mutex_, exit_, remaining, callerVars,
                   lockedTokens, hist, lastRefill, elapsed>>


\* ~TokenBucket() as it would be if line 49 did not wait for the thread
Dtor_join_noWait ==
    /\ hostpc = "d49"
    /\ hostpc' = "destroyed"
    /\ UNCHANGED <<bucketVars, counter_, counter_mutex_, exit_, cvWaiter, rpc,
                   remaining, callerVars, lockedTokens, hist, lastRefill, elapsed>>

\* line 49: refiller_.join() returns once refill() has returned; the
\* destructor then returns
Dtor_join ==
    /\ hostpc = "d49"
    /\ Terminated
    /\ hostpc' = "destroyed"
    /\ UNCHANGED <<bucketVars, counter_, counter_mutex_, exit_, cvWaiter, rpc,
                   remaining, callerVars, lockedTokens, hist, lastRefill, elapsed>>

Ctor == Ctor_refiller \/ Ctor_exit \/ Ctor_cv

Dtor == Dtor_begin \/ Dtor_lock \/ Dtor_setExit \/ Dtor_unlock \/ Dtor_notify \/ Dtor_join

Next ==
    \/ Ctor
    \/ Dtor
    \/ refill
    \/ Tick
    \/ Timeout
    \/ SpuriousWakeup
    \/ \E c \in Callers : request(c)

Spec == Init /\ [][Next]_vars

(***************************************************************************)
(* Scheduling.  A thread that can take a step takes one (WF); a thread     *)
(* blocked in lock() gets the mutex if it is free again and again (SF).    *)
(* Whether a call of request() or the destructor starts is up to the host, *)
(* and a spurious wake-up is never owed.                                   *)
(***************************************************************************)
HostRuns ==
    /\ WF_vars(Ctor)
    /\ SF_vars(Dtor_lock)
    /\ WF_vars(Dtor_setExit \/ Dtor_unlock \/ Dtor_notify \/ Dtor_join)

RefillerRuns ==
    /\ SF_vars(Refill_lock \/ Refill_relock \/ Refill_relockTimedOut)
    /\ WF_vars(Refill_checkExit \/ Refill_wait_for \/ Refill_recheck \/ Refill_timedOut
               \/ Refill_reset \/ Refill_unlock \/ Refill_print \/ Refill_return)

CallersRun ==
    \A c \in Callers :
        /\ SF_vars(Request_lock(c))
        /\ WF_vars(Request_test(c) \/ Request_take(c) \/ Request_unlock(c)
                   \/ Request_return(c))

\* The clock of the refiller advances and a deadline reached ends the wait.
TimerRuns == WF_vars(Tick) /\ WF_vars(Timeout)

\* the threads are scheduled; nothing is assumed of the period timer
FairThreads == Spec /\ HostRuns /\ RefillerRuns /\ CallersRun

\* the threads are scheduled and the period timer runs
FairTimer == FairThreads /\ TimerRuns

(***************************************************************************)
(* Properties.                                                             *)
(***************************************************************************)
TypeOK ==
    /\ size \in Sizes
    /\ refillFrequencySeconds \in Periods
    /\ max_counter_ = size
    /\ counter_ \in Int
    /\ counter_mutex_ \in {Free, HeldByHost, HeldByRefiller} \cup {HeldBy(c) : c \in Callers}
    /\ exit_ \in BOOLEAN
    /\ cvWaiter \in BOOLEAN
    /\ remaining \in 0..MaxPeriod
    /\ lastRefill \in {"none", "exhausted", "other"}
    /\ Len(hist) <= MaxCalls
    /\ elapsed \in 0..MaxPeriod

\* The results in h are true up to the k-th and false after it.
FirstTrueThenFalse(h, k) == \A i \in 1..Len(h) : h[i] = (i <= k)

\* How many results in h are true.
NumTrue(h) == Cardinality({i \in 1..Len(h) : h[i]})

\* Caller c is inside the critical section of request().
InCritical(c) == pc[c] \in {"q60", "q61", "q64"}

\* C1: with size > 0, a request() that holds the mutex and found counter_ > 0
\* leaves the critical section with counter_ exactly one lower and result
\* true; one that found counter_ = 0 leaves it with counter_ untouched and
\* result false; nobody else changes counter_ in between.
C1_RequestAtomic ==
    size > 0 =>
        \A c \in Callers :
            /\ InCritical(c) => counter_mutex_ = HeldBy(c)
            /\ pc[c] \in {"q60", "q61"} => counter_ = lockedTokens /\ ~result[c]
            /\ pc[c] = "q61" => lockedTokens > 0
            /\ pc[c] = "q64" =>
                   IF lockedTokens > 0
                     THEN result[c] /\ counter_ = lockedTokens - 1
                     ELSE ~result[c] /\ counter_ = lockedTokens

\* a request() took the last token, after a refill
C1_Witness ==
    /\ size > 0
    /\ refilled
    /\ \E c \in Callers : pc[c] = "q64" /\ result[c] /\ lockedTokens = 1 /\ counter_ = 0

\* C2: with size > 0, 0 <= counter_ <= max_counter_ in every reachable state.
C2_TokensInRange == size > 0 => (0 <= counter_ /\ counter_ <= max_counter_)

\* the bucket is empty while the destructor runs, a request() is in its
\* critical section and a refill has happened
C2_Witness ==
    /\ size > 0
    /\ counter_ = 0
    /\ refilled
    /\ hostpc \in {"d45", "d48", "d49"}
    /\ \E c \in Callers : InCritical(c)

\* C3: with size > 0, of the request() calls decided since the bucket was
\* last full (construction or refill) the first max_counter_ returned true,
\* every later one false; so no more than max_counter_ return true.
C3_CapacityBound ==
    size > 0 =>
        /\ FirstTrueThenFalse(hist, max_counter_)
        /\ NumTrue(hist) <= max_counter_

\* size calls returned true and the next returned false, with no refill ever
C3_Witness ==
    /\ size = 2
    /\ ~refilled
    /\ hist = <<TRUE, TRUE, FALSE>>

\* C4: NumCallers callers, one request() each, against a full bucket of
\* 0 < size < NumCallers and no refill: exactly size of them got true, the
\* others false, and counter_ ends at 0.
AllCalledOnce == \A c \in Callers : ncalls[c] = 1 /\ pc[c] = "idle"

C4_ConcurrentCallers ==
    (size > 0 /\ size < NumCallers /\ ~refilled /\ AllCalledOnce) =>
        /\ Cardinality({c \in Callers : result[c]}) = size
        /\ Cardinality({c \in Callers : ~result[c]}) = NumCallers - size
        /\ counter_ = 0

\* every caller has made its one call, the second of them lost
C4_Witness ==
    /\ size > 0 /\ size < NumCallers /\ ~refilled /\ AllCalledOnce
    /\ \E c \in Callers : ~result[c]

\* C5: line 83 leaves counter_ = max_counter_ whatever it was, and of the
\* request() calls decided since a refill the first max_counter_ returned
\* true and every later one false.
C5_RefillRestores ==
    /\ rpc = "r84" => counter_ = max_counter_ /\ hist = <<>>
    /\ (refilled /\ size >= 0) => FirstTrueThenFalse(hist, max_counter_)

\* an exhausted bucket was refilled; the next size calls got true, the one
\* after them false
C5_Witness ==
    /\ size > 0
    /\ lastRefill = "exhausted"
    /\ Len(hist) = size + 1
    /\ ~hist[size + 1]

\* C7: the destructor has returned only if refill() has returned; the
\* refiller then holds neither a position in refill() nor the mutex, takes
\* no further step, and counter_ changes only by a request() at line 61.
C7_JoinBeforeReturn ==
    /\ [](hostpc = "destroyed" => (Terminated /\ counter_mutex_ # HeldByRefiller))
    /\ [][hostpc = "destroyed" =>
             /\ rpc' = rpc
             /\ counter_' # counter_ => \E c \in Callers : pc[c] = "q61"]_vars

\* the destructor returned after the refiller had refilled
C7_Witness == hostpc = "destroyed" /\ Terminated /\ refilled

\* C9: with size <= 0 or refillFrequencySeconds <= 0 the constructor fails:
\* no object comes to exist, no thread is started, no request() returns true.
C9_RejectsNonPositive ==
    (size <= 0 \/ refillFrequencySeconds <= 0) =>
        /\ rpc = "notstarted"
        /\ ~Alive
        /\ \A c \in Callers : ~result[c]

\* The destructor has been entered.
ShutdownRequested == hostpc \in {"d45", "d46", "d47", "d48", "d49", "destroyed"}

\* C6: if size > 0 and the destructor is never entered then, with the threads and the
\* timer running, line 83 runs again and again, and an empty bucket of
\* size > 0 becomes full again.
C6_RefillLiveness ==
    (size > 0 /\ [](~ShutdownRequested)) =>
        /\ []<>(rpc = "r84")
        /\ (size > 0 /\ counter_ = 0) ~> (counter_ = max_counter_)

\* C8: once the destructor of a bucket built with size > 0 and a period > 0
\* has been entered it returns, with the threads running and nothing
\* assumed of the timer.
C8_ShutdownCompletes ==
    (size > 0 /\ refillFrequencySeconds > 0 /\ hostpc = "d45") ~> (hostpc = "destroyed")

\* C10: every request() that has started returns, with the threads running
\* and no refill owed; the refiller never holds the mutex while it is
\* blocked in the wait.
C10_RequestReturns ==
    /\ [](rpc \in {"waiting", "woken", "timedout"} => counter_mutex_ # HeldByRefiller)
    /\ \A c \in Callers : (pc[c] # "idle") ~> (pc[c] = "idle")

\* a request() found the bucket empty and returned false while the
\* refiller was blocked in the wait with its deadline still ahead
C10_Witness ==
    /\ size > 0
    /\ rpc = "waiting"
    /\ remaining > 0
    /\ counter_mutex_ = Free
    /\ \E c \in Callers : pc[c] = "q65" /\ ~result[c] /\ counter_ = 0

\* The destructor has run line 46: exit_ = true.
StopSet == hostpc \in {"d47", "d48", "d49", "destroyed"}

\* C11: once the destructor has set exit_, line 83 never runs again: the
\* refiller is neither at line 83 nor just past it, and no step of it
\* writes counter_.
C11_NoRefillAfterStop ==
    /\ [](StopSet => (exit_ /\ rpc \notin {"r83", "r84"}))
    /\ [][StopSet => ~Refill_reset]_vars

\* the deadline and the stop signal fell together: the wait timed out, the
\* destructor set exit_ and notified, and the refiller took the mutex again
\* and is about to look at exit_
C11_Witness ==
    /\ StopSet
    /\ rpc = "tpred"
    /\ exit_
    /\ counter_ < max_counter_

\* The refiller is between taking the mutex and giving it back.
RefillerInCritical == rpc \in {"r80", "r80w", "wpred", "tpred", "r83", "r84", "r81"}

\* The destructor is inside its lock_guard block.
HostInCritical == hostpc \in {"d46", "d47"}

\* The threads that are inside a critical section of counter_mutex_.
Holders ==
    {HeldBy(c) : c \in {d \in Callers : InCritical(d)}}
        \cup (IF RefillerInCritical THEN {HeldByRefiller} ELSE {})
        \cup (IF HostInCritical THEN {HeldByHost} ELSE {})

\* C12: at most one thread is inside a critical section of counter_mutex_
\* and it is the one that holds the mutex; counter_ is read (line 60) and
\* written (lines 61, 83) only by the thread holding the mutex.
C12_LockDiscipline ==
    /\ [](/\ Cardinality(Holders) <= 1
          /\ \A h \in Holders : counter_mutex_ = h
          /\ Holders = {} => counter_mutex_ = Free
          /\ \A c \in Callers : pc[c] \in {"q60", "q61"} => counter_mutex_ = HeldBy(c)
          /\ rpc = "r83" => counter_mutex_ = HeldByRefiller)
    /\ [][counter_' # counter_ =>
             \/ \E c \in Callers : pc[c] = "q61" /\ counter_mutex_ = HeldBy(c)
             \/ rpc = "r83" /\ counter_mutex_ = HeldByRefiller]_vars

\* a request() is about to decrement counter_ while the refiller, after a
\* timeout, and the destructor both wait for the mutex
C12_Witness ==
    /\ \E c \in Callers : pc[c] = "q61" /\ counter_mutex_ = HeldBy(c)
    /\ rpc = "timedout"
    /\ hostpc = "d45"

(***************************************************************************)
(* The abstract token bucket: a token count and the log of the decisions   *)
(* since the bucket was last full, changed only by two atomic actions.     *)
(* A request() takes effect when it gives the mutex back (line 64), the    *)
(* refill when line 83 runs.                                               *)
(***************************************************************************)
\* the token count of the abstract bucket: counter_, plus the tokens taken
\* at line 61 by a request() that has not yet left its critical section
absTokens == counter_ + Cardinality({c \in Callers : pc[c] = "q64" /\ result[c]})

\* the decisions of the abstract bucket since it was last full
absLog == hist

\* atomic Acquire by caller c: tokens > 0 -> tokens - 1, true; else false
AbsAcquire(c) ==
    /\ pc[c] = "q64" /\ pc'[c] = "q65"
    /\ result'[c] = (absTokens > 0)
    /\ absTokens' = IF absTokens > 0 THEN absTokens - 1 ELSE absTokens
    /\ absLog' = Append(absLog, absTokens > 0)

\* atomic Refill: tokens := capacity
AbsRefill ==
    /\ absTokens' = max_counter_
    /\ absLog' = <<>>

\* C13: every step of the program is an Acquire or a Refill of the abstract
\* bucket or leaves the abstract bucket as it is, and what a request()
\* returns is what its Acquire decided.
C13_RefinesAtomicBucket ==
    [][/\ \/ \E c \in Callers : AbsAcquire(c)
          \/ AbsRefill
          \/ UNCHANGED <<absTokens, absLog>>
       /\ \A c \in Callers : pc[c] = "q65" => result'[c] = result[c]]_vars

\* The refill period in clock ticks: a non-positive one is over at once.
Period == Max(refillFrequencySeconds, 0)

\* C14: line 83 is reached only from a wait that timed out, with exit_
\* unset, after a full period has gone by since the wait began and since
\* the refill before it; a wake-up that is no timeout leads back into the
\* wait with the same deadline or, if exit_ is set, to return, never to
\* line 83; before the deadline only the destructor's exit_ ends the wait.
C14_RefillOnlyOnTimeout ==
    /\ [](rpc \in {"timedout", "tpred", "r83"} => remaining = 0)
    /\ [](rpc = "r83" => (~exit_ /\ elapsed >= Period))
    /\ [][rpc' = "r83" => (rpc = "tpred" \/ rpc = "r83")]_vars
    /\ [][(rpc = "woken" \/ rpc = "wpred") =>
             (rpc' \in {"woken", "wpred", "waiting", "r81"})]_vars
    /\ [][(rpc = "wpred" /\ rpc' = "waiting") => remaining' = remaining]_vars
    /\ [][(rpc = "wpred" /\ rpc' = "r81" /\ remaining > 0) => StopSet]_vars

\* after a refill and before the deadline of the next wait the refiller
\* woke up without a timeout, found exit_ unset and holds the mutex again
C14_Witness ==
    /\ refilled
    /\ rpc = "wpred"
    /\ remaining > 0
    /\ ~exit_
    /\ counter_ < max_counter_

\* C15: on a bucket built with size > 0 and a period > 0 the refiller is
\* started by the constructor (line 41) and by nothing else, and it has
\* returned from refill() only if the destructor has set exit_.
C15_RefillerLivesUntilStop ==
    (size > 0 /\ refillFrequencySeconds > 0) =>
        /\ rpc = "notstarted" <=> hostpc = "c41"
        /\ Terminated => StopSet

\* The initialiser of exit_ (line 72) has run.
ExitInitialised == hostpc \notin {"c41", "c72"}

\* condition_variable_ (line 73) has been constructed.
CvConstructed == hostpc \notin {"c41", "c72", "c73"}

\* The refiller has evaluated exit_ at line 80.
HasReadExit == rpc \notin {"notstarted", "r79", "r80"}

\* The refiller has blocked on condition_variable_ at line 80.
HasWaited == rpc \in {"waiting", "woken", "timedout", "wpred", "tpred", "r83", "r84", "r85"}

\* C16: in no interleaving of the constructor with the thread it started
\* has the refiller read exit_ while exit_ is uninitialised, or waited on
\* condition_variable_ while that is not constructed.
C16_ConstructionOrder ==
    /\ HasReadExit => ExitInitialised
    /\ HasWaited => CvConstructed

\* C17: a refill is, in this order: line 83 under the mutex, the release
\* of the mutex (line 84), one notification (line 85) and the way back to
\* line 79 and the wait; the notification is emitted while the refiller
\* does not hold the mutex, and only after a refill of its own.
C17_RefillStepOrder ==
    /\ [](rpc = "r83" => counter_mutex_ = HeldByRefiller)
    /\ [](rpc = "r84" => (counter_mutex_ = HeldByRefiller /\ counter_ = max_counter_))
    /\ [](rpc = "r85" => counter_mutex_ # HeldByRefiller)
    /\ [][(rpc = "r83" /\ rpc' # "r83") => (rpc' = "r84" /\ counter_' = max_counter_)]_vars
    /\ [][(rpc = "r84" /\ rpc' # "r84") =>
             (rpc' = "r85" /\ counter_mutex_' = Free /\ counter_' = counter_)]_vars
    /\ [][(rpc = "r85" /\ rpc' # "r85") => rpc' = "r79"]_vars
    /\ [][(rpc' = "r85" /\ rpc # "r85") => rpc = "r84"]_vars
    /\ [][(rpc' = "r84" /\ rpc # "r84") => rpc = "r83"]_vars

\* the notification is about to be emitted while a request() holds the
\* mutex and takes a token of the refilled bucket
C17_Witness ==
    /\ rpc = "r85"
    /\ \E c \in Callers : pc[c] = "q61" /\ counter_mutex_ = HeldBy(c)
    /\ counter_ = max_counter_

====
